---- MODULE Spec2Model ----
(***************************************************************************)
(* Cart store of ec-stable-app: the in-memory line-item collection held    *)
(* by useCartStorage, the operations of useCartOperations and CartProvider,*)
(* and the two localStorage keys the collection is mirrored to.            *)
(*                                                                         *)
(* One store instance runs at a time on one localStorage; Reload is the    *)
(* page being closed and opened again (a new instance on the same slot).   *)
(* A React state update is modelled in two steps: the handler (the state   *)
(* updater and the storage calls made next to it) and then the save effect *)
(* that React runs after the commit, before any other event is handled.    *)
(***************************************************************************)
EXTENDS Integers, Sequences, FiniteSets, TLC

VARIABLES
    items,         \* useState<CartItem[]>([])
    isLoading,     \* useState(true)
    localStorage,  \* key -> stored string; an absent key is outside DOMAIN
    now,           \* new Date().getTime(), in milliseconds
    pc,            \* "mount": effects of the first render pending;
                   \* "effect": a state change is committed, save effect pending;
                   \* "idle": waiting for the next event;
                   \* "crashed": the load threw, the tree is unmounted
    hist,          \* history: the last handler that ran and the state it started from
    tabs,          \* two-tab specification: tab -> [items, isLoading, pc] of its store
    mutated,       \* two-tab specification, history: who called an operation last
    consumer,      \* scope specification: outcome of the last render of a consumer
    impl           \* equivalence specification: provider -> [items, isLoading,
                   \* localStorage, pc] of the monolithic and of the modular provider

vars == <<items, isLoading, localStorage, now, pc, hist, tabs, mutated, consumer, impl>>

\* State of the two-tab, scope and equivalence specifications; the one-store
\* actions leave it alone.
aux == <<tabs, mutated, consumer, impl>>

----------------------------------------------------------------------------
(* Program constants *)

CART_STORAGE_KEY == "ec-cart-items"
CART_TIMESTAMP_KEY == "ec-cart-timestamp"
CART_EXPIRY_HOURS == 24
MsPerHour == 1000 * 60 * 60

(* Bounds of the model *)

MaxQuantity == 3       \* quantities stay within MinQuantity..MaxQuantity
MinQuantity == 0 - 1
MaxTicks == 2          \* the clock advances at most MaxTicks times
TickMs == 86400000     \* a clock step is TickMs (24 h) or TickMs + 1

Undefined == "undefined"

\* The product descriptions callers pass to addToCart: the same id can arrive
\* with another name, price and imageUrl than the entry already in the cart.
Products ==
    { [id |-> "1", name |-> "ProductA", price |-> 1000, imageUrl |-> Undefined],
      [id |-> "1", name |-> "ProductA-new", price |-> 900,
       imageUrl |-> "/images/product-a.jpg"],
      [id |-> "2", name |-> "ProductB", price |-> 2000,
       imageUrl |-> "/images/product-b.jpg"] }

ProductIds == { p.id : p \in Products }

InputQuantities == MinQuantity .. 2

\* type CartItem
CartItem ==
    { [id |-> p.id, name |-> p.name, price |-> p.price, quantity |-> q,
       imageUrl |-> p.imageUrl] : p \in Products, q \in InputQuantities }

----------------------------------------------------------------------------
(* Array helpers *)

Range(s) == { s[k] : k \in 1..Len(s) }

\* prevItems.find((i) => i.id === id) is truthy
HasId(s, id) == \E k \in 1..Len(s) : s[k].id = id

\* Variant: the comparison is inverted, only the entry with the id is kept.
FilterOutId_KeepsMatch(s, id) == SelectSeq(s, LAMBDA e : e.id = id)

\* prevItems.filter((item) => item.id !== id)
FilterOutId(s, id) == SelectSeq(s, LAMBDA e : e.id # id)

----------------------------------------------------------------------------
(* localStorage *)

getItemPresent(ls, key) == key \in DOMAIN ls

setItem(ls, key, value) ==
    [k \in DOMAIN ls \cup {key} |-> IF k = key THEN value ELSE ls[k]]

removeItem(ls, key) == [k \in DOMAIN ls \ {key} |-> ls[k]]

NoStorage == [k \in {} |-> Undefined]

----------------------------------------------------------------------------
(* JSON.stringify / JSON.parse of a CartItem[]                             *)
(* The text is modelled as the sequence of objects it denotes; an object   *)
(* is the function from the keys written to their values.  A property      *)
(* whose value is undefined is not written; a key that was not written     *)
(* reads back as undefined.                                                *)

\* Variant: the optional imageUrl is never written.
StringifyItem_NoImage(e) ==
    [k \in {"id", "name", "price", "quantity"} |-> e[k]]

StringifyItem(e) ==
    LET keys == {"id", "name", "price", "quantity"}
                \cup (IF e.imageUrl = Undefined THEN {} ELSE {"imageUrl"})
    IN [k \in keys |-> e[k]]

JSONstringify(s) == [k \in 1..Len(s) |-> StringifyItem(s[k])]

ParseItem(o) ==
    [id |-> o["id"], name |-> o["name"], price |-> o["price"],
     quantity |-> o["quantity"],
     imageUrl |-> IF "imageUrl" \in DOMAIN o THEN o["imageUrl"] ELSE Undefined]

JSONparse(t) == [k \in 1..Len(t) |-> ParseItem(t[k])]

\* A stored text that is not JSON: JSON.parse throws a SyntaxError on it.
Malformed == <<[syntaxError |-> TRUE]>>

Parseable(t) == \A k \in 1..Len(t) : "syntaxError" \notin DOMAIN t[k]

----------------------------------------------------------------------------
(* Date: toISOString() writes the instant as calendar fields, new          *)
(* Date(text).getTime() reads them back.                                   *)

MsPerDay == 24 * MsPerHour

toISOString(ms) ==
    [day |-> ms \div MsPerDay,
     hour |-> (ms % MsPerDay) \div MsPerHour,
     minute |-> (ms % MsPerHour) \div 60000,
     second |-> (ms % 60000) \div 1000,
     milli |-> ms % 1000]

getTime(iso) ==
    iso.day * MsPerDay + iso.hour * MsPerHour + iso.minute * 60000
    + iso.second * 1000 + iso.milli

\* Variant: a snapshot of exactly CART_EXPIRY_HOURS counts as expired.
Expired_AtLimit(savedTime, currentTime) ==
    (currentTime - savedTime) >= CART_EXPIRY_HOURS * MsPerHour

\* Variant: the subtraction is written the other way round.
Expired_Reversed(savedTime, currentTime) ==
    (savedTime - currentTime) > CART_EXPIRY_HOURS * MsPerHour

\* hoursPassed > CART_EXPIRY_HOURS, where hoursPassed is the real quotient
\* (currentTime - savedTime) / (1000 * 60 * 60): multiplied out to integers.
Expired(savedTime, currentTime) ==
    (currentTime - savedTime) > CART_EXPIRY_HOURS * MsPerHour

----------------------------------------------------------------------------
(* State updaters of useCartOperations *)

\* Variant: a new item is put in front of the collection.
addToCartUpdater_Prepends(prevItems, item) ==
    IF HasId(prevItems, item.id)
    THEN [k \in 1..Len(prevItems) |->
            IF prevItems[k].id = item.id
            THEN [prevItems[k] EXCEPT !.quantity = @ + item.quantity]
            ELSE prevItems[k]]
    ELSE <<item>> \o prevItems

\* Variant: on a match the quantity is replaced by the incoming one.
addToCartUpdater_Overwrites(prevItems, item) ==
    IF HasId(prevItems, item.id)
    THEN [k \in 1..Len(prevItems) |->
            IF prevItems[k].id = item.id
            THEN [prevItems[k] EXCEPT !.quantity = item.quantity]
            ELSE prevItems[k]]
    ELSE Append(prevItems, item)

\* Variant: the merged entry is rebuilt from the incoming item.
addToCartUpdater_SpreadIncoming(prevItems, item) ==
    IF HasId(prevItems, item.id)
    THEN [k \in 1..Len(prevItems) |->
            IF prevItems[k].id = item.id
            THEN [item EXCEPT !.quantity = prevItems[k].quantity + @]
            ELSE prevItems[k]]
    ELSE Append(prevItems, item)

\* Variant: no lookup of an existing entry, the item is always appended.
addToCartUpdater_AlwaysAppend(prevItems, item) == Append(prevItems, item)

addToCartUpdater(prevItems, item) ==
    IF HasId(prevItems, item.id)
    THEN [k \in 1..Len(prevItems) |->
            IF prevItems[k].id = item.id
            THEN [prevItems[k] EXCEPT !.quantity = @ + item.quantity]
            ELSE prevItems[k]]
    ELSE Append(prevItems, item)

\* Variant: the new quantity is given to every entry.
updateQuantityUpdater_AllEntries(prevItems, itemId, quantity) ==
    [k \in 1..Len(prevItems) |-> [prevItems[k] EXCEPT !.quantity = quantity]]

\* Variant: a quantity below 1 removes the entry.
updateQuantityUpdater_RemoveBelowOne(prevItems, itemId, quantity) ==
    IF quantity < 1
    THEN SelectSeq(prevItems, LAMBDA e : e.id # itemId)
    ELSE [k \in 1..Len(prevItems) |->
            IF prevItems[k].id = itemId
            THEN [prevItems[k] EXCEPT !.quantity = quantity]
            ELSE prevItems[k]]

updateQuantityUpdater(prevItems, itemId, quantity) ==
    [k \in 1..Len(prevItems) |->
        IF prevItems[k].id = itemId
        THEN [prevItems[k] EXCEPT !.quantity = quantity]
        ELSE prevItems[k]]

\* Variant: only the item list is removed, the timestamp stays.
RemoveBothKeys_ItemsOnly(ls) == removeItem(ls, CART_STORAGE_KEY)

RemoveBothKeys(ls) == removeItem(removeItem(ls, CART_STORAGE_KEY), CART_TIMESTAMP_KEY)

\* Variant: the length of the collection is not tested.
SaveWrite_NoLengthGuard(ls, renderedItems, renderedLoading, t) ==
    IF ~renderedLoading
    THEN setItem(setItem(ls, CART_STORAGE_KEY, JSONstringify(renderedItems)),
                 CART_TIMESTAMP_KEY, toISOString(t))
    ELSE ls

\* Variant: nothing is written for the collection the load produced, only
\* after a change made by an operation.
SaveWrite_NotForLoaded(ls, renderedItems, renderedLoading, t) ==
    IF ~renderedLoading /\ Len(renderedItems) > 0 /\ hist.op # "loadCartData"
    THEN setItem(setItem(ls, CART_STORAGE_KEY, JSONstringify(renderedItems)),
                 CART_TIMESTAMP_KEY, toISOString(t))
    ELSE ls

\* Variant: the save effect keeps the stored entries the collection lacks.
SaveWrite_MergesStored(ls, renderedItems, renderedLoading, t) ==
    IF ~renderedLoading /\ Len(renderedItems) > 0
    THEN LET stored == IF getItemPresent(ls, CART_STORAGE_KEY)
                       THEN JSONparse(ls[CART_STORAGE_KEY]) ELSE <<>>
             kept == SelectSeq(stored, LAMBDA e : ~HasId(renderedItems, e.id))
         IN setItem(setItem(ls, CART_STORAGE_KEY, JSONstringify(renderedItems \o kept)),
                    CART_TIMESTAMP_KEY, toISOString(t))
    ELSE ls

\* Body of the save effect, on the values of the render it belongs to.
SaveWrite(ls, renderedItems, renderedLoading, t) ==
    IF ~renderedLoading /\ Len(renderedItems) > 0
    THEN setItem(setItem(ls, CART_STORAGE_KEY, JSONstringify(renderedItems)),
                 CART_TIMESTAMP_KEY, toISOString(t))
    ELSE ls

----------------------------------------------------------------------------
(* History: the last handler that ran (op, arg), the state it started from  *)
(* (items, storage) and, for a load, the collection the previous instance  *)
(* held when the page was closed (prev).                                   *)

Snapshot(op, arg) ==
    [op |-> op, arg |-> arg, items |-> items, storage |-> localStorage,
     prev |-> IF op = "loadCartData" /\ hist.op = "reload" THEN hist.items ELSE <<>>]

NoItem == [id |-> Undefined, quantity |-> 0]

----------------------------------------------------------------------------
\* The two implementations of the provider compared by the equivalence
\* specification, each started on its own copy of a slot.
Providers == {"monolithic", "modular"}

ProviderStart(ls) ==
    [items |-> <<>>, isLoading |-> TRUE, localStorage |-> ls, pc |-> "mount"]

\* The two browser tabs of the two-tab specification.
Tabs == {"A", "B"}

\* A store before its first effects: useState([]) and useState(true).
FirstRender == [items |-> <<>>, isLoading |-> TRUE, pc |-> "mount"]

NobodyMutated == [tab |-> "none", op |-> "none", writer |-> "none", by |-> {}]

NotRendered == [rendered |-> FALSE]

Init ==
    /\ items = <<>>
    /\ isLoading = TRUE
    /\ localStorage = NoStorage
    /\ now = 0
    /\ pc = "mount"
    /\ hist = [op |-> "construct", arg |-> NoItem, items |-> <<>>,
               storage |-> NoStorage, prev |-> <<>>]
    /\ tabs = [t \in Tabs |-> FirstRender]
    /\ mutated = NobodyMutated
    /\ consumer = NotRendered
    /\ impl = [i \in Providers |-> ProviderStart(NoStorage)]

\* Variant: the expired branch returns without setIsLoading(false).
LoadCartData_ExpiredKeepsLoading ==
    /\ pc = "mount"
    /\ UNCHANGED aux
    /\ hist' = Snapshot("loadCartData", NoItem)
    /\ now' = now
    /\ IF /\ getItemPresent(localStorage, CART_TIMESTAMP_KEY)
          /\ Expired(getTime(localStorage[CART_TIMESTAMP_KEY]), now)
       THEN /\ localStorage' = RemoveBothKeys(localStorage)
            /\ items' = <<>>
            /\ isLoading' = isLoading
            /\ pc' = "effect"
       ELSE IF /\ getItemPresent(localStorage, CART_STORAGE_KEY)
               /\ ~Parseable(localStorage[CART_STORAGE_KEY])
       THEN /\ pc' = "crashed"
            /\ UNCHANGED <<items, isLoading, localStorage>>
       ELSE /\ items' = IF getItemPresent(localStorage, CART_STORAGE_KEY)
                        THEN JSONparse(localStorage[CART_STORAGE_KEY])
                        ELSE items
            /\ isLoading' = FALSE
            /\ localStorage' = localStorage
            /\ pc' = "effect"

\* Variant: a parse failure is caught and the corrupt entry discarded.
LoadCartData_CatchesParseError ==
    /\ pc = "mount"
    /\ UNCHANGED aux
    /\ hist' = Snapshot("loadCartData", NoItem)
    /\ pc' = "effect"
    /\ now' = now
    /\ isLoading' = FALSE
    /\ IF \/ /\ getItemPresent(localStorage, CART_TIMESTAMP_KEY)
             /\ Expired(getTime(localStorage[CART_TIMESTAMP_KEY]), now)
          \/ /\ getItemPresent(localStorage, CART_STORAGE_KEY)
             /\ ~Parseable(localStorage[CART_STORAGE_KEY])
       THEN /\ localStorage' = RemoveBothKeys(localStorage)
            /\ items' = <<>>
       ELSE /\ items' = IF getItemPresent(localStorage, CART_STORAGE_KEY)
                        THEN JSONparse(localStorage[CART_STORAGE_KEY])
                        ELSE items
            /\ localStorage' = localStorage

\* useCartStorage, first effect: loadCartData().  The save effect of the same
\* (first) commit runs right after it on the first render's values, items = []
\* and isLoading = true; the state set here is rendered next (pc = "effect").
\* An exception thrown by JSON.parse leaves the effect: nothing is set, and
\* with no error boundary the tree is unmounted (pc = "crashed").
LoadCartData ==
    /\ pc = "mount"
    /\ UNCHANGED aux
    /\ hist' = Snapshot("loadCartData", NoItem)
    /\ now' = now
    /\ IF /\ getItemPresent(localStorage, CART_TIMESTAMP_KEY)
          /\ Expired(getTime(localStorage[CART_TIMESTAMP_KEY]), now)
       THEN /\ localStorage' = SaveWrite(RemoveBothKeys(localStorage), <<>>, TRUE, now)
            /\ items' = <<>>
            /\ isLoading' = FALSE
            /\ pc' = "effect"
       ELSE IF /\ getItemPresent(localStorage, CART_STORAGE_KEY)
               /\ ~Parseable(localStorage[CART_STORAGE_KEY])
       THEN /\ pc' = "crashed"
            /\ UNCHANGED <<items, isLoading, localStorage>>
       ELSE /\ items' = IF getItemPresent(localStorage, CART_STORAGE_KEY)
                        THEN JSONparse(localStorage[CART_STORAGE_KEY])
                        ELSE items
            /\ isLoading' = FALSE
            /\ localStorage' = SaveWrite(localStorage, <<>>, TRUE, now)
            /\ pc' = "effect"

\* Variant: the effect writes whenever loading is over, also an empty list.
SaveEffect_NoLengthGuard ==
    /\ pc = "effect"
    /\ UNCHANGED aux
    /\ pc' = "idle"
    /\ localStorage' =
         IF ~isLoading
         THEN setItem(setItem(localStorage, CART_STORAGE_KEY, JSONstringify(items)),
                      CART_TIMESTAMP_KEY, toISOString(now))
         ELSE localStorage
    /\ UNCHANGED <<items, isLoading, now, hist>>

\* Variant: the timestamp is written once and not refreshed by later writes.
SaveEffect_KeepsTimestamp ==
    /\ pc = "effect"
    /\ UNCHANGED aux
    /\ pc' = "idle"
    /\ localStorage' =
         IF ~isLoading /\ Len(items) > 0
         THEN LET ls == setItem(localStorage, CART_STORAGE_KEY, JSONstringify(items))
              IN IF CART_TIMESTAMP_KEY \in DOMAIN ls
                 THEN ls
                 ELSE setItem(ls, CART_TIMESTAMP_KEY, toISOString(now))
         ELSE localStorage
    /\ UNCHANGED <<items, isLoading, now, hist>>

\* useCartStorage, second effect (deps [items, isLoading])
SaveEffect ==
    /\ pc = "effect"
    /\ UNCHANGED aux
    /\ pc' = "idle"
    /\ localStorage' = SaveWrite(localStorage, items, isLoading, now)
    /\ UNCHANGED <<items, isLoading, now, hist>>

AddToCart(item) ==
    /\ pc = "idle"
    /\ UNCHANGED aux
    /\ \A k \in 1..Len(items) :
         items[k].id = item.id =>
           items[k].quantity + item.quantity \in MinQuantity..MaxQuantity
    /\ hist' = Snapshot("addToCart", item)
    /\ items' = addToCartUpdater(items, item)
    /\ pc' = "effect"
    /\ UNCHANGED <<isLoading, localStorage, now>>

RemoveFromCart(id) ==
    /\ pc = "idle"
    /\ UNCHANGED aux
    /\ hist' = Snapshot("removeFromCart", [id |-> id, quantity |-> 0])
    /\ LET newItems == FilterOutId(items, id)
       IN /\ localStorage' = IF Len(newItems) = 0
                             THEN RemoveBothKeys(localStorage)
                             ELSE localStorage
          /\ items' = newItems
    /\ pc' = "effect"
    /\ UNCHANGED <<isLoading, now>>

UpdateQuantity(itemId, quantity) ==
    /\ pc = "idle"
    /\ UNCHANGED aux
    /\ hist' = Snapshot("updateQuantity", [id |-> itemId, quantity |-> quantity])
    /\ items' = updateQuantityUpdater(items, itemId, quantity)
    /\ pc' = "effect"
    /\ UNCHANGED <<isLoading, localStorage, now>>

\* Variant: the collection is reset but the storage keys are left alone.
ClearCart_KeepsStorage ==
    /\ pc = "idle"
    /\ UNCHANGED aux
    /\ hist' = Snapshot("clearCart", NoItem)
    /\ items' = <<>>
    /\ pc' = "effect"
    /\ UNCHANGED <<isLoading, localStorage, now>>

ClearCart ==
    /\ pc = "idle"
    /\ UNCHANGED aux
    /\ hist' = Snapshot("clearCart", NoItem)
    /\ items' = <<>>
    /\ localStorage' = RemoveBothKeys(localStorage)
    /\ pc' = "effect"
    /\ UNCHANGED <<isLoading, now>>

\* The page is closed and opened again: a new CartProvider on the same storage.
Reload ==
    /\ pc = "idle"
    /\ UNCHANGED aux
    /\ hist' = Snapshot("reload", NoItem)
    /\ items' = <<>>
    /\ isLoading' = TRUE
    /\ pc' = "mount"
    /\ UNCHANGED <<localStorage, now>>

Tick ==
    /\ pc = "idle"
    /\ UNCHANGED aux
    /\ \E d \in {TickMs, TickMs + 1} :
         /\ now + d <= MaxTicks * (TickMs + 1)
         /\ now' = now + d
    /\ UNCHANGED <<items, isLoading, localStorage, pc, hist>>

Next ==
    \/ LoadCartData
    \/ SaveEffect
    \/ \E item \in CartItem : AddToCart(item)
    \/ \E id \in ProductIds : RemoveFromCart(id)
    \/ \E id \in ProductIds, q \in InputQuantities : UpdateQuantity(id, q)
    \/ ClearCart
    \/ Reload
    \/ Tick

Spec == Init /\ [][Next]_vars

----------------------------------------------------------------------------
(* The store started on a slot it did not write itself: any of the item    *)
(* texts below, with or without a timestamp written at time 0, found 24    *)
(* hours or 24 hours and a millisecond later.                              *)

StoredObject(id, q, img) ==
    StringifyItem([id |-> id, name |-> "ProductA", price |-> 1000, quantity |-> q,
                   imageUrl |-> img])

ForeignTexts ==
    { <<>>,
      Malformed,
      <<StoredObject("1", 1, Undefined), StoredObject("1", 0, Undefined)>>,
      <<StoredObject("2", 2, "/images/product-a.jpg"), StoredObject("1", 1, Undefined)>> }

ForeignSlots ==
    LET lists == {NoStorage} \cup { setItem(NoStorage, CART_STORAGE_KEY, t) : t \in ForeignTexts }
    IN lists \cup { setItem(ls, CART_TIMESTAMP_KEY, toISOString(0)) : ls \in lists }

InitAny ==
    /\ items = <<>>
    /\ isLoading = TRUE
    /\ localStorage \in ForeignSlots
    /\ now \in {TickMs, TickMs + 1}
    /\ pc = "mount"
    /\ hist = [op |-> "construct", arg |-> NoItem, items |-> <<>>,
               storage |-> NoStorage, prev |-> <<>>]
    /\ tabs = [t \in Tabs |-> FirstRender]
    /\ mutated = NobodyMutated
    /\ consumer = NotRendered
    /\ impl = [i \in Providers |-> ProviderStart(NoStorage)]

\* The clock is read at startup; it does not advance afterwards.
NextAny ==
    \/ LoadCartData
    \/ SaveEffect
    \/ \E item \in CartItem : AddToCart(item)
    \/ \E id \in ProductIds : RemoveFromCart(id)
    \/ \E id \in ProductIds, q \in InputQuantities : UpdateQuantity(id, q)
    \/ ClearCart
    \/ Reload

SpecAny == InitAny /\ [][NextAny]_vars

\* The effects of a commit are always run: React flushes them before it
\* handles another event.
FairSpecAny == SpecAny /\ WF_vars(LoadCartData) /\ WF_vars(SaveEffect)

----------------------------------------------------------------------------
(* Two tabs: two CartProvider instances, each with its own items and       *)
(* isLoading, on the one localStorage of the origin.  A tab runs a handler *)
(* and the effects of its commit in one task of its own event loop; the    *)
(* tasks of the two tabs follow each other in any order.  Both tabs are    *)
(* opened within the expiry window (the clock stands still).               *)

\* What the callers of the two tabs pass to addToCart and updateQuantity.
TabItems == { e \in CartItem : e.quantity = 1 /\ e.name \in {"ProductA", "ProductB"} }

TabQuantities == {2}

Other(t) == CHOOSE u \in Tabs : u # t

\* Tab t is at position p and the other tab is not in the middle of a task.
TabReady(t, p) == tabs[t].pc = p /\ tabs[Other(t)].pc # "effect"

\* History of the two tabs: the tab and operation called last, the tab whose
\* call was the last one other than updateQuantity on an empty collection
\* (writer), and the tabs that have called an operation so far (by).
Called(t, op) ==
    [tab |-> t, op |-> op,
     writer |-> IF op = "updateQuantity" /\ Len(tabs[t].items) = 0
                THEN mutated.writer ELSE t,
     by |-> mutated.by \cup {t}]

\* loadCartData() of tab t, followed by the save effect of its first commit.
TabLoadCartData(t) ==
    /\ TabReady(t, "mount")
    /\ IF /\ getItemPresent(localStorage, CART_TIMESTAMP_KEY)
          /\ Expired(getTime(localStorage[CART_TIMESTAMP_KEY]), now)
       THEN /\ localStorage' = SaveWrite(RemoveBothKeys(localStorage), <<>>, TRUE, now)
            /\ tabs' = [tabs EXCEPT ![t] = [items |-> <<>>, isLoading |-> FALSE,
                                            pc |-> "effect"]]
       ELSE IF /\ getItemPresent(localStorage, CART_STORAGE_KEY)
               /\ ~Parseable(localStorage[CART_STORAGE_KEY])
       THEN /\ tabs' = [tabs EXCEPT ![t].pc = "crashed"]
            /\ localStorage' = localStorage
       ELSE /\ tabs' = [tabs EXCEPT ![t] =
                          [items |-> IF getItemPresent(localStorage, CART_STORAGE_KEY)
                                     THEN JSONparse(localStorage[CART_STORAGE_KEY])
                                     ELSE tabs[t].items,
                           isLoading |-> FALSE,
                           pc |-> "effect"]]
            /\ localStorage' = SaveWrite(localStorage, <<>>, TRUE, now)
    /\ UNCHANGED <<items, isLoading, now, pc, hist, mutated, consumer>>
    /\ UNCHANGED impl

TabSaveEffect(t) ==
    /\ tabs[t].pc = "effect"
    /\ tabs' = [tabs EXCEPT ![t].pc = "idle"]
    /\ localStorage' = SaveWrite(localStorage, tabs[t].items, tabs[t].isLoading, now)
    /\ UNCHANGED <<items, isLoading, now, pc, hist, mutated, consumer>>
    /\ UNCHANGED impl

TabAddToCart(t, item) ==
    /\ TabReady(t, "idle")
    /\ \A k \in 1..Len(tabs[t].items) :
         tabs[t].items[k].id = item.id =>
           tabs[t].items[k].quantity + item.quantity \in MinQuantity..MaxQuantity
    /\ mutated' = Called(t, "addToCart")
    /\ tabs' = [tabs EXCEPT ![t].items = addToCartUpdater(@, item), ![t].pc = "effect"]
    /\ UNCHANGED <<items, isLoading, localStorage, now, pc, hist, consumer>>
    /\ UNCHANGED impl

TabRemoveFromCart(t, id) ==
    /\ TabReady(t, "idle")
    /\ mutated' = Called(t, "removeFromCart")
    /\ LET newItems == FilterOutId(tabs[t].items, id)
       IN /\ localStorage' = IF Len(newItems) = 0
                             THEN RemoveBothKeys(localStorage)
                             ELSE localStorage
          /\ tabs' = [tabs EXCEPT ![t].items = newItems, ![t].pc = "effect"]
    /\ UNCHANGED <<items, isLoading, now, pc, hist, consumer>>
    /\ UNCHANGED impl

TabUpdateQuantity(t, itemId, quantity) ==
    /\ TabReady(t, "idle")
    /\ mutated' = Called(t, "updateQuantity")
    /\ tabs' = [tabs EXCEPT ![t].items = updateQuantityUpdater(@, itemId, quantity),
                            ![t].pc = "effect"]
    /\ UNCHANGED <<items, isLoading, localStorage, now, pc, hist, consumer>>
    /\ UNCHANGED impl

TabClearCart(t) ==
    /\ TabReady(t, "idle")
    /\ mutated' = Called(t, "clearCart")
    /\ tabs' = [tabs EXCEPT ![t].items = <<>>, ![t].pc = "effect"]
    /\ localStorage' = RemoveBothKeys(localStorage)
    /\ UNCHANGED <<items, isLoading, now, pc, hist, consumer>>
    /\ UNCHANGED impl

TabNext ==
    \/ \E t \in Tabs : TabLoadCartData(t)
    \/ \E t \in Tabs : TabSaveEffect(t)
    \/ \E t \in Tabs, item \in TabItems : TabAddToCart(t, item)
    \/ \E t \in Tabs, id \in ProductIds : TabRemoveFromCart(t, id)
    \/ \E t \in Tabs, id \in ProductIds, q \in TabQuantities : TabUpdateQuantity(t, id, q)
    \/ \E t \in Tabs : TabClearCart(t)

TabSpec == Init /\ [][TabNext]_vars

----------------------------------------------------------------------------
(* Scope: a consumer component calls useCart() while it renders, either     *)
(* below the CartProvider or in a tree that has no CartProvider above it.   *)

\* createContext<CartContextType | undefined>(undefined): what useContext
\* returns where no provider is above the caller.
DefaultContext == [defined |-> FALSE]

Operations == {"addToCart", "removeFromCart", "updateQuantity", "clearCart"}

\* <CartContext.Provider value={{ items, ..., clearCart, isLoading }}>
ProviderValue ==
    [defined |-> TRUE, items |-> items, isLoading |-> isLoading,
     operations |-> Operations]

useContext(nested) == IF nested THEN ProviderValue ELSE DefaultContext

\* Variant: the context is returned unchecked.
useCart_Unchecked(context) == [threw |-> FALSE, value |-> context]

useCart(context) ==
    IF ~context.defined
    THEN [threw |-> TRUE, error |-> "useCart must be used within a CartProvider"]
    ELSE [threw |-> FALSE, value |-> context]

\* What the scope specification passes to addToCart and updateQuantity.
ScopeItems == { e \in CartItem : e.quantity = 1 }

ScopeQuantities == {0, 2}

\* A consumer renders; below the provider it can only while the provider's
\* tree is mounted.
RenderConsumer(nested) ==
    /\ nested => pc # "crashed"
    /\ consumer' = [rendered |-> TRUE, nested |-> nested,
                    result |-> useCart(useContext(nested))]
    /\ UNCHANGED <<items, isLoading, localStorage, now, pc, hist, tabs, mutated>>
    /\ UNCHANGED impl

ScopeNext ==
    \/ LoadCartData
    \/ SaveEffect
    \/ \E item \in ScopeItems : AddToCart(item)
    \/ \E id \in ProductIds : RemoveFromCart(id)
    \/ \E id \in ProductIds, q \in ScopeQuantities : UpdateQuantity(id, q)
    \/ ClearCart
    \/ \E nested \in BOOLEAN : RenderConsumer(nested)

ScopeSpec == Init /\ [][ScopeNext]_vars

----------------------------------------------------------------------------
(* Equivalence: the monolithic provider of context/CartContext.tsx and the *)
(* modular provider (useCartStorage + useCartOperations + CartProvider),   *)
(* each on its own copy of the same slot, read the same clock and receive  *)
(* the same calls.  A step of a provider is an operator from its state     *)
(* [items, isLoading, localStorage, pc] to the next one.                   *)

\* --- context/CartContext.tsx ---

\* Second useEffect of the monolithic provider.
MonoSaveWrite(ls, renderedItems, renderedLoading, t) ==
    IF ~renderedLoading /\ Len(renderedItems) > 0
    THEN setItem(setItem(ls, CART_STORAGE_KEY, JSONstringify(renderedItems)),
                 CART_TIMESTAMP_KEY, toISOString(t))
    ELSE ls

\* First useEffect of the monolithic provider, with the save effect of the
\* first commit (items = [], isLoading = true) after it.
MonoLoadCartData(st, t) ==
    IF /\ getItemPresent(st.localStorage, CART_TIMESTAMP_KEY)
       /\ (t - getTime(st.localStorage[CART_TIMESTAMP_KEY])) > CART_EXPIRY_HOURS * MsPerHour
    THEN [items |-> <<>>, isLoading |-> FALSE,
          localStorage |->
            MonoSaveWrite(removeItem(removeItem(st.localStorage, CART_STORAGE_KEY),
                                     CART_TIMESTAMP_KEY), <<>>, TRUE, t),
          pc |-> "effect"]
    ELSE IF /\ getItemPresent(st.localStorage, CART_STORAGE_KEY)
            /\ ~Parseable(st.localStorage[CART_STORAGE_KEY])
    THEN [st EXCEPT !.pc = "crashed"]
    ELSE [items |-> IF getItemPresent(st.localStorage, CART_STORAGE_KEY)
                    THEN JSONparse(st.localStorage[CART_STORAGE_KEY])
                    ELSE st.items,
          isLoading |-> FALSE,
          localStorage |-> MonoSaveWrite(st.localStorage, <<>>, TRUE, t),
          pc |-> "effect"]

MonoSaveEffect(st, t) ==
    [st EXCEPT !.localStorage = MonoSaveWrite(@, st.items, st.isLoading, t),
               !.pc = "idle"]

MonoAddToCart(st, item) ==
    LET prevItems == st.items
        newItems ==
          IF \E k \in 1..Len(prevItems) : prevItems[k].id = item.id
          THEN [k \in 1..Len(prevItems) |->
                  IF prevItems[k].id = item.id
                  THEN [prevItems[k] EXCEPT !.quantity = @ + item.quantity]
                  ELSE prevItems[k]]
          ELSE prevItems \o <<item>>
    IN [st EXCEPT !.items = newItems, !.pc = "effect"]

\* clearCart of the monolithic provider: the state it sets and the storage
\* it leaves.
MonoClearCartItems == <<>>

MonoClearCartStorage(ls) ==
    removeItem(removeItem(ls, CART_STORAGE_KEY), CART_TIMESTAMP_KEY)

MonoClearCart(st) ==
    [st EXCEPT !.items = MonoClearCartItems,
               !.localStorage = MonoClearCartStorage(@),
               !.pc = "effect"]

\* Variant: the updater does not call clearCart() for an emptied collection.
MonoRemoveFromCart_NoClear(st, id) ==
    { [st EXCEPT !.items = SelectSeq(st.items, LAMBDA e : e.id # id),
                 !.pc = "effect"] }

\* removeFromCart of the monolithic provider.  When the filtered list is
\* empty the updater calls clearCart(), which removes both keys and queues
\* setItems([]) on the same state; React applies the queued value and the
\* updater's return value in either order, and may run the updater again on
\* the queued value.  The result is the set of states this can end in.
MonoRemoveFromCart(st, id) ==
    LET filter(prevItems) == SelectSeq(prevItems, LAMBDA e : e.id # id)
        newItems == filter(st.items)
    IN IF Len(newItems) = 0
       THEN { [st EXCEPT !.items = finalItems,
                         !.localStorage = MonoClearCartStorage(@),
                         !.pc = "effect"] :
                finalItems \in {MonoClearCartItems, newItems, filter(MonoClearCartItems)} }
       ELSE { [st EXCEPT !.items = newItems, !.pc = "effect"] }

\* --- useCartStorage + useCartOperations + CartProvider ---

ModularLoadCartData(st, t) ==
    IF /\ getItemPresent(st.localStorage, CART_TIMESTAMP_KEY)
       /\ Expired(getTime(st.localStorage[CART_TIMESTAMP_KEY]), t)
    THEN [items |-> <<>>, isLoading |-> FALSE,
          localStorage |-> SaveWrite(RemoveBothKeys(st.localStorage), <<>>, TRUE, t),
          pc |-> "effect"]
    ELSE IF /\ getItemPresent(st.localStorage, CART_STORAGE_KEY)
            /\ ~Parseable(st.localStorage[CART_STORAGE_KEY])
    THEN [st EXCEPT !.pc = "crashed"]
    ELSE [items |-> IF getItemPresent(st.localStorage, CART_STORAGE_KEY)
                    THEN JSONparse(st.localStorage[CART_STORAGE_KEY])
                    ELSE st.items,
          isLoading |-> FALSE,
          localStorage |-> SaveWrite(st.localStorage, <<>>, TRUE, t),
          pc |-> "effect"]

ModularSaveEffect(st, t) ==
    [st EXCEPT !.localStorage = SaveWrite(@, st.items, st.isLoading, t),
               !.pc = "idle"]

ModularAddToCart(st, item) ==
    [st EXCEPT !.items = addToCartUpdater(@, item), !.pc = "effect"]

ModularRemoveFromCart(st, id) ==
    LET newItems == FilterOutId(st.items, id)
    IN [st EXCEPT !.items = newItems,
                  !.localStorage = IF Len(newItems) = 0 THEN RemoveBothKeys(@) ELSE @,
                  !.pc = "effect"]

ModularClearCart(st) ==
    [st EXCEPT !.items = <<>>, !.localStorage = RemoveBothKeys(@), !.pc = "effect"]

\* --- the two providers side by side ---

Both(p) == \A i \in Providers : impl[i].pc = p

\* History: the call both providers received last and the state the modular
\* one started it from.
EqSnapshot(op, arg) ==
    [op |-> op, arg |-> arg, items |-> impl.modular.items,
     storage |-> impl.modular.localStorage, prev |-> <<>>]

Pair(mono, modular) == [monolithic |-> mono, modular |-> modular]

EqLoadCartData ==
    /\ Both("mount")
    /\ impl' = Pair(MonoLoadCartData(impl.monolithic, now),
                    ModularLoadCartData(impl.modular, now))
    /\ hist' = EqSnapshot("loadCartData", NoItem)
    /\ UNCHANGED <<items, isLoading, localStorage, now, pc, tabs, mutated, consumer>>

EqSaveEffect ==
    /\ Both("effect")
    /\ impl' = Pair(MonoSaveEffect(impl.monolithic, now),
                    ModularSaveEffect(impl.modular, now))
    /\ UNCHANGED <<items, isLoading, localStorage, now, pc, hist, tabs, mutated, consumer>>

EqAddToCart(item) ==
    /\ Both("idle")
    /\ \A i \in Providers : \A k \in 1..Len(impl[i].items) :
         impl[i].items[k].id = item.id =>
           impl[i].items[k].quantity + item.quantity \in MinQuantity..MaxQuantity
    /\ impl' = Pair(MonoAddToCart(impl.monolithic, item),
                    ModularAddToCart(impl.modular, item))
    /\ hist' = EqSnapshot("addToCart", item)
    /\ UNCHANGED <<items, isLoading, localStorage, now, pc, tabs, mutated, consumer>>

EqRemoveFromCart(id) ==
    /\ Both("idle")
    /\ \E mono \in MonoRemoveFromCart(impl.monolithic, id) :
         impl' = Pair(mono, ModularRemoveFromCart(impl.modular, id))
    /\ hist' = EqSnapshot("removeFromCart", [id |-> id, quantity |-> 0])
    /\ UNCHANGED <<items, isLoading, localStorage, now, pc, tabs, mutated, consumer>>

EqClearCart ==
    /\ Both("idle")
    /\ impl' = Pair(MonoClearCart(impl.monolithic), ModularClearCart(impl.modular))
    /\ hist' = EqSnapshot("clearCart", NoItem)
    /\ UNCHANGED <<items, isLoading, localStorage, now, pc, tabs, mutated, consumer>>

\* Both pages are closed and opened again, each on the slot it left.
EqReload ==
    /\ Both("idle")
    /\ impl' = [i \in Providers |-> ProviderStart(impl[i].localStorage)]
    /\ hist' = EqSnapshot("reload", NoItem)
    /\ UNCHANGED <<items, isLoading, localStorage, now, pc, tabs, mutated, consumer>>

EqTick ==
    /\ Both("idle")
    /\ \E d \in {TickMs, TickMs + 1} :
         /\ now + d <= MaxTicks * (TickMs + 1)
         /\ now' = now + d
    /\ UNCHANGED <<items, isLoading, localStorage, pc, hist, tabs, mutated, consumer, impl>>

EqInit ==
    /\ items = <<>>
    /\ isLoading = TRUE
    /\ localStorage = NoStorage
    /\ now \in {TickMs, TickMs + 1}
    /\ pc = "mount"
    /\ hist = [op |-> "construct", arg |-> NoItem, items |-> <<>>,
               storage |-> NoStorage, prev |-> <<>>]
    /\ tabs = [t \in Tabs |-> FirstRender]
    /\ mutated = NobodyMutated
    /\ consumer = NotRendered
    /\ \E ls \in ForeignSlots : impl = [i \in Providers |-> ProviderStart(ls)]

EqNext ==
    \/ EqLoadCartData
    \/ EqSaveEffect
    \/ \E item \in CartItem : EqAddToCart(item)
    \/ \E id \in ProductIds : EqRemoveFromCart(id)
    \/ EqClearCart
    \/ EqReload
    \/ EqTick

EqSpec == EqInit /\ [][EqNext]_vars

----------------------------------------------------------------------------
(* Vocabulary of the properties *)

Mutations == {"addToCart", "removeFromCart", "updateQuantity"}

HasKey(ls, key) == key \in DOMAIN ls

SlotEmpty(ls) == ~HasKey(ls, CART_STORAGE_KEY) /\ ~HasKey(ls, CART_TIMESTAMP_KEY)

SlotComplete(ls) ==
    /\ HasKey(ls, CART_STORAGE_KEY)
    /\ HasKey(ls, CART_TIMESTAMP_KEY)
    /\ Len(ls[CART_STORAGE_KEY]) > 0

\* Position of the entry with this id in a collection that holds it.
IndexOf(s, id) == CHOOSE k \in 1..Len(s) : s[k].id = id

----------------------------------------------------------------------------
(* C1  Merge-on-add: addToCart(item) on an id that is already in the       *)
(* collection adds item.quantity to that entry's quantity, keeps the       *)
(* length, and keeps the entry's name, price and imageUrl (those of the    *)
(* incoming item are discarded).                                           *)
C1_MergeOnAdd ==
    (hist.op = "addToCart" /\ HasId(hist.items, hist.arg.id)) =>
        /\ Len(items) = Len(hist.items)
        /\ LET k == IndexOf(hist.items, hist.arg.id)
           IN /\ items[k].id = hist.arg.id
              /\ items[k].quantity = hist.items[k].quantity + hist.arg.quantity
              /\ items[k].name = hist.items[k].name
              /\ items[k].price = hist.items[k].price
              /\ items[k].imageUrl = hist.items[k].imageUrl

\* An add on an existing id whose name, price and imageUrl all differ from the entry's.
C1_Witness ==
    /\ hist.op = "addToCart"
    /\ HasId(hist.items, hist.arg.id)
    /\ LET k == IndexOf(hist.items, hist.arg.id)
       IN /\ hist.arg.name # hist.items[k].name
          /\ hist.arg.price # hist.items[k].price
          /\ hist.arg.imageUrl # hist.items[k].imageUrl
          /\ hist.arg.quantity = 2

(* C2  Unique ids: in every reachable state no two line items of the       *)
(* in-memory collection share an id.                                       *)
C2_UniqueIds ==
    \A j, k \in 1..Len(items) : items[j].id = items[k].id => j = k

\* Two entries, loaded from the slot by a new instance, then an add on one of them.
C2_Witness ==
    /\ Len(items) = 2
    /\ hist.op = "addToCart"
    /\ HasId(hist.items, hist.arg.id)
    /\ HasKey(hist.storage, CART_STORAGE_KEY)

(* C3  Persisted-slot invariant: once the load has completed, in every     *)
(* settled state the slot holds either a non-empty item list together      *)
(* with a timestamp, or neither key.                                       *)
C3_SlotCompleteOrEmpty ==
    (pc = "idle") => (SlotComplete(localStorage) \/ SlotEmpty(localStorage))

\* Settled after a removal that emptied a collection whose snapshot was stored.
C3_Witness ==
    /\ pc = "idle"
    /\ hist.op = "removeFromCart"
    /\ SlotComplete(hist.storage)
    /\ SlotEmpty(localStorage)

(* C4  Expiry: when the timestamp found at startup is more than 24 hours   *)
(* older than the current time, the load ends with an empty collection,    *)
(* isLoading false and both keys absent, whatever list was stored.         *)
C4_Expiry ==
    (/\ hist.op = "loadCartData"
     /\ pc = "effect"
     /\ HasKey(hist.storage, CART_TIMESTAMP_KEY)
     /\ now - getTime(hist.storage[CART_TIMESTAMP_KEY]) > 24 * 3600000)
    => (items = <<>> /\ isLoading = FALSE /\ SlotEmpty(localStorage))

\* A load that found a stored list of two entries, one millisecond past 24 hours.
C4_Witness ==
    /\ hist.op = "loadCartData"
    /\ pc = "effect"
    /\ SlotComplete(hist.storage)
    /\ Len(hist.storage[CART_STORAGE_KEY]) = 2
    /\ now - getTime(hist.storage[CART_TIMESTAMP_KEY]) = 24 * 3600000 + 1

(* C5  Write-back after mutation: after the load, a mutation that leaves   *)
(* the collection non-empty is followed by the persistence step, and       *)
(* nothing else runs in between; after that step the persisted item list   *)
(* is the full in-memory collection and the persisted timestamp is the     *)
(* current time of the step.                                               *)
C5_WriteBack ==
    /\ [](pc = "effect" => ENABLED SaveEffect)
    /\ [][pc = "effect" => pc' = "idle"]_vars
    /\ [][(pc = "effect" /\ pc' = "idle" /\ hist.op \in Mutations /\ Len(items) > 0)
          => /\ SlotComplete(localStorage')
             /\ JSONparse(localStorage'[CART_STORAGE_KEY]) = items'
             /\ getTime(localStorage'[CART_TIMESTAMP_KEY]) = now']_vars

\* Settled after an updateQuantity, a day after the snapshot before it was written.
C5_Witness ==
    /\ pc = "idle"
    /\ hist.op = "updateQuantity"
    /\ Len(items) = 2
    /\ SlotComplete(hist.storage)
    /\ getTime(localStorage[CART_TIMESTAMP_KEY])
         = getTime(hist.storage[CART_TIMESTAMP_KEY]) + TickMs

(* C6  Empty-on-removal cleanup: removeFromCart(id) removes the entry with *)
(* that id and keeps the others; when the collection is left empty both    *)
(* keys are deleted and are still absent after the persistence step.       *)
C6_RemovalCleanup ==
    (hist.op = "removeFromCart") =>
        /\ ~HasId(items, hist.arg.id)
        /\ \A k \in 1..Len(hist.items) :
             hist.items[k].id # hist.arg.id => hist.items[k] \in Range(items)
        /\ (items = <<>> => SlotEmpty(localStorage))

\* The single stored line item was removed and the persistence step has run.
C6_Witness ==
    /\ hist.op = "removeFromCart"
    /\ pc = "idle"
    /\ Len(hist.items) = 1
    /\ SlotComplete(hist.storage)
    /\ items = <<>>

(* C7 as stated: removeFromCart(id) with an id that is not in the          *)
(* collection leaves the collection and both persisted keys unchanged.     *)
C7_Original ==
    (hist.op = "removeFromCart" /\ ~HasId(hist.items, hist.arg.id)) =>
        /\ items = hist.items
        /\ localStorage = hist.storage

(* C7  Idempotent removal, amended: removeFromCart(id) with an id that is  *)
(* not in the collection leaves the collection and the persisted item list *)
(* unchanged and neither adds nor deletes a key; when the collection is    *)
(* non-empty the persistence step that follows rewrites the timestamp to   *)
(* the current time.                                                       *)
C7_AbsentRemoval ==
    /\ []((hist.op = "removeFromCart" /\ ~HasId(hist.items, hist.arg.id)) =>
            /\ items = hist.items
            /\ DOMAIN localStorage = DOMAIN hist.storage
            /\ (HasKey(localStorage, CART_STORAGE_KEY) =>
                  localStorage[CART_STORAGE_KEY] = hist.storage[CART_STORAGE_KEY])
            /\ (items = <<>> => SlotEmpty(localStorage)))
    /\ [][(/\ hist.op = "removeFromCart"
           /\ ~HasId(hist.items, hist.arg.id)
           /\ pc = "effect" /\ pc' = "idle"
           /\ Len(items) > 0)
          => getTime(localStorage'[CART_TIMESTAMP_KEY]) = now']_vars

\* Settled after removing an absent id from a non-empty collection, the clock having advanced.
C7_Witness ==
    /\ hist.op = "removeFromCart"
    /\ ~HasId(hist.items, hist.arg.id)
    /\ Len(hist.items) = 1
    /\ pc = "idle"
    /\ localStorage[CART_TIMESTAMP_KEY] # hist.storage[CART_TIMESTAMP_KEY]

(* C8  Round trip: a new instance started on the slot left by an instance  *)
(* with a non-empty collection, within 24 hours of the last write,         *)
(* finishes loading with the same set of {id, name, price, quantity,       *)
(* imageUrl} tuples.                                                       *)
C8_RoundTrip ==
    (/\ hist.op = "loadCartData"
     /\ pc = "effect"
     /\ hist.prev # <<>>
     /\ HasKey(hist.storage, CART_TIMESTAMP_KEY)
     /\ now - getTime(hist.storage[CART_TIMESTAMP_KEY]) <= 24 * 3600000)
    => (isLoading = FALSE /\ Range(items) = Range(hist.prev))

\* Reloaded exactly 24 hours after the write: two entries, one with an imageUrl
\* and one without, one with a quantity below 1.
C8_Witness ==
    /\ hist.op = "loadCartData"
    /\ pc = "effect"
    /\ Len(hist.prev) = 2
    /\ now - getTime(hist.storage[CART_TIMESTAMP_KEY]) = 24 * 3600000
    /\ \E e \in Range(hist.prev) : e.imageUrl = Undefined
    /\ \E e \in Range(hist.prev) : e.imageUrl # Undefined /\ e.quantity < 1

(* C9  clearCart: from every state clearCart() leaves the collection empty *)
(* and both keys absent, and the persistence step that follows writes      *)
(* nothing.                                                                *)
C9_ClearCart ==
    (hist.op = "clearCart") => (items = <<>> /\ SlotEmpty(localStorage))

\* Settled after clearing a collection of two entries whose snapshot was stored.
C9_Witness ==
    /\ hist.op = "clearCart"
    /\ pc = "idle"
    /\ Len(hist.items) = 2
    /\ SlotComplete(hist.storage)

(* C10  updateQuantity(id, q): an entry with that id gets quantity q, for  *)
(* any q including zero and negative values, and stays in the collection,  *)
(* whose length does not change; with no such entry the collection is      *)
(* unchanged.                                                              *)
C10_UpdateQuantity ==
    (hist.op = "updateQuantity") =>
        /\ Len(items) = Len(hist.items)
        /\ \A k \in 1..Len(hist.items) :
             hist.items[k].id = hist.arg.id =>
               /\ items[k].id = hist.arg.id
               /\ items[k].quantity = hist.arg.quantity
        /\ (~HasId(hist.items, hist.arg.id) => items = hist.items)

\* A quantity of 2 overwritten with a negative one.
C10_Witness ==
    /\ hist.op = "updateQuantity"
    /\ HasId(hist.items, hist.arg.id)
    /\ hist.arg.quantity < 0
    /\ hist.items[IndexOf(hist.items, hist.arg.id)].quantity = 2
    /\ Len(items) = 2

(* C11  Quantity invariant, as stated: every line item has quantity >= 1;  *)
(* addToCart or updateQuantity on an entry of a collection whose           *)
(* quantities are all >= 1 never leaves an entry with a quantity below 1   *)
(* (the entry is removed instead).                                         *)
C11_QuantityAtLeastOne ==
    (/\ hist.op \in {"addToCart", "updateQuantity"}
     /\ HasId(hist.items, hist.arg.id)
     /\ \A k \in 1..Len(hist.items) : hist.items[k].quantity >= 1)
    => \A k \in 1..Len(items) : items[k].quantity >= 1

(* C14  Concrete scenario: on a loaded empty store, adding product "1"     *)
(* (name ProductA for the spec's name, price 1000, no imageUrl) with       *)
(* quantity 1 and then with quantity 2 gives exactly one entry, of         *)
(* quantity 3; removeFromCart("1") then gives an empty collection and      *)
(* both storage keys absent.                                               *)
ScenarioItem(q) ==
    [id |-> "1", name |-> "ProductA", price |-> 1000, quantity |-> q,
     imageUrl |-> Undefined]

C14_Scenario ==
    /\ (hist.op = "addToCart" /\ hist.items = <<>> /\ hist.arg = ScenarioItem(1))
         => items = <<ScenarioItem(1)>>
    /\ (/\ hist.op = "addToCart"
        /\ hist.items = <<ScenarioItem(1)>>
        /\ hist.arg = ScenarioItem(2))
         => items = <<ScenarioItem(3)>>
    /\ (/\ hist.op = "removeFromCart"
        /\ hist.items = <<ScenarioItem(3)>>
        /\ hist.arg.id = "1")
         => (items = <<>> /\ SlotEmpty(localStorage))

\* The end of the scenario: the entry of quantity 3 was stored, then removed,
\* and the persistence step has run.
C14_Witness ==
    /\ hist.op = "removeFromCart"
    /\ hist.items = <<ScenarioItem(3)>>
    /\ hist.arg.id = "1"
    /\ hist.storage[CART_STORAGE_KEY] = JSONstringify(<<ScenarioItem(3)>>)
    /\ pc = "idle"
    /\ now = 0

(* C17  Append-on-add: addToCart(item) with an id that is not in the       *)
(* collection gives the previous collection, unchanged and in the same     *)
(* order, followed by the item as passed in; the call is always possible.  *)
C17_AppendOnAdd ==
    /\ (hist.op = "addToCart" /\ ~HasId(hist.items, hist.arg.id)) =>
         /\ Len(items) = Len(hist.items) + 1
         /\ SubSeq(items, 1, Len(hist.items)) = hist.items
         /\ items[Len(items)] = hist.arg
    /\ (pc = "idle") =>
         \A item \in CartItem : ~HasId(items, item.id) => ENABLED AddToCart(item)

\* A second product appended behind an entry, with a quantity below 1 and an imageUrl.
C17_Witness ==
    /\ hist.op = "addToCart"
    /\ Len(hist.items) = 1
    /\ ~HasId(hist.items, hist.arg.id)
    /\ hist.arg.quantity = 0
    /\ hist.arg.imageUrl # Undefined
    /\ Len(items) = 2

(* C12  Loading lifecycle: isLoading is true from construction until the   *)
(* initial read completes, becomes false exactly at that step (data        *)
(* loaded, expired and cleaned, or no data), does become false whenever    *)
(* the stored text is parseable, and no later mutation makes it true       *)
(* again (only a new instance starts with true).                           *)
SlotParseable(ls) ==
    getItemPresent(ls, CART_STORAGE_KEY) => Parseable(ls[CART_STORAGE_KEY])

C12_LoadingLifecycle ==
    /\ [](pc = "mount" => isLoading)
    /\ [](pc \in {"effect", "idle"} => ~isLoading)
    /\ [][(isLoading /\ ~isLoading')
          => (pc = "mount" /\ pc' = "effect" /\ hist'.op = "loadCartData")]_vars
    /\ [][(~isLoading /\ isLoading') => hist'.op = "reload"]_vars
    /\ ((isLoading /\ SlotParseable(localStorage)) ~> ~isLoading)

\* The expired outcome: a stored list and its timestamp were found and
\* cleaned, and isLoading is false.
C12_Witness ==
    /\ hist.op = "loadCartData"
    /\ pc = "effect"
    /\ ~isLoading
    /\ SlotComplete(hist.storage)
    /\ Parseable(hist.storage[CART_STORAGE_KEY])
    /\ SlotEmpty(localStorage)

(* C13  Non-expired load: with no timestamp, or with a timestamp at most   *)
(* 24 hours old (exactly 24 hours included), the stored item list, if      *)
(* any, becomes the collection exactly as stored, same entries in the      *)
(* same order and unvalidated, and the load removes neither key.           *)
C13_NonExpiredLoad ==
    (/\ hist.op = "loadCartData"
     /\ pc = "effect"
     /\ \/ ~HasKey(hist.storage, CART_TIMESTAMP_KEY)
        \/ now - getTime(hist.storage[CART_TIMESTAMP_KEY]) <= 24 * 3600000)
    => /\ localStorage = hist.storage
       /\ IF HasKey(hist.storage, CART_STORAGE_KEY)
          THEN JSONstringify(items) = hist.storage[CART_STORAGE_KEY]
          ELSE items = <<>>

\* Exactly 24 hours after the timestamp: a list with a repeated id and a
\* quantity of 0 is loaded as it is.
C13_Witness ==
    /\ hist.op = "loadCartData"
    /\ pc = "effect"
    /\ HasKey(hist.storage, CART_TIMESTAMP_KEY)
    /\ now - getTime(hist.storage[CART_TIMESTAMP_KEY]) = 24 * 3600000
    /\ Len(items) = 2
    /\ items[1].id = items[2].id
    /\ items[2].quantity = 0

(* C16  Corrupt snapshot on read: a stored list that fails to parse, in a  *)
(* snapshot that is not expired, ends the load in an error: the collection *)
(* stays empty, isLoading stays true for good, and the corrupt text and    *)
(* its timestamp stay in the slot; in an expired snapshot the corrupt text *)
(* is deleted unparsed and the load completes without error.               *)
CorruptFound ==
    /\ hist.op = "loadCartData"
    /\ HasKey(hist.storage, CART_STORAGE_KEY)
    /\ ~Parseable(hist.storage[CART_STORAGE_KEY])

ExpiredFound ==
    /\ HasKey(hist.storage, CART_TIMESTAMP_KEY)
    /\ now - getTime(hist.storage[CART_TIMESTAMP_KEY]) > 24 * 3600000

C16_CorruptSnapshot ==
    /\ []((CorruptFound /\ ~ExpiredFound) =>
            /\ pc = "crashed"
            /\ items = <<>>
            /\ isLoading
            /\ localStorage = hist.storage)
    /\ []((CorruptFound /\ ExpiredFound) =>
            /\ pc \in {"effect", "idle"}
            /\ items = <<>>
            /\ ~isLoading
            /\ SlotEmpty(localStorage))
    /\ [][pc = "crashed" => (pc' = "crashed" /\ isLoading')]_vars
    /\ [](pc = "crashed" => ~ENABLED NextAny)

\* The load threw on a corrupt text stored with a timestamp exactly 24 hours old.
C16_Witness ==
    /\ pc = "crashed"
    /\ CorruptFound
    /\ HasKey(hist.storage, CART_TIMESTAMP_KEY)
    /\ now - getTime(hist.storage[CART_TIMESTAMP_KEY]) = 24 * 3600000

(* C19  Guarded writes: a key is written only by the persistence step,     *)
(* with isLoading false and a non-empty collection, whose text it writes;  *)
(* nothing is written while the load is pending; for an empty collection   *)
(* the slot is changed only by the deletion of both keys, in               *)
(* removeFromCart, clearCart or the expiry cleanup of the load.            *)
Written(ls, after) ==
    \E k \in DOMAIN after : k \notin DOMAIN ls \/ after[k] # ls[k]

C19_GuardedWrites ==
    /\ [][Written(localStorage, localStorage') =>
            /\ pc = "effect" /\ pc' = "idle"
            /\ ~isLoading
            /\ Len(items) > 0
            /\ localStorage'[CART_STORAGE_KEY] = JSONstringify(items)
            /\ getTime(localStorage'[CART_TIMESTAMP_KEY]) = now]_vars
    /\ [][isLoading => ~Written(localStorage, localStorage')]_vars
    /\ [][(Len(items') = 0 /\ localStorage' # localStorage) =>
            /\ SlotEmpty(localStorage')
            /\ hist'.op \in {"removeFromCart", "clearCart", "loadCartData"}]_vars

\* The persistence step has run for an empty collection and left alone a
\* stored empty list and its old timestamp.
C19_Witness ==
    /\ pc = "idle"
    /\ ~isLoading
    /\ items = <<>>
    /\ hist.op = "updateQuantity"
    /\ HasKey(localStorage, CART_STORAGE_KEY)
    /\ HasKey(localStorage, CART_TIMESTAMP_KEY)
    /\ getTime(localStorage[CART_TIMESTAMP_KEY]) # now

(* C20  Write-back on load: when the load completes with a non-empty       *)
(* collection, the persistence step that follows rewrites the item list    *)
(* and sets the timestamp to the current time without any mutation: the    *)
(* 24-hour window restarts at every start, and a list stored without a     *)
(* timestamp gains one.                                                    *)
C20_WriteBackOnLoad ==
    /\ [](pc = "effect" => ENABLED SaveEffect)
    /\ [][(pc = "effect" /\ hist.op = "loadCartData" /\ Len(items) > 0) =>
            /\ pc' = "idle"
            /\ items' = items
            /\ SlotComplete(localStorage')
            /\ localStorage'[CART_STORAGE_KEY] = JSONstringify(items)
            /\ getTime(localStorage'[CART_TIMESTAMP_KEY]) = now]_vars

\* Settled after loading a list that was stored without a timestamp.
C20_Witness ==
    /\ pc = "idle"
    /\ hist.op = "loadCartData"
    /\ Len(items) = 2
    /\ HasKey(hist.storage, CART_STORAGE_KEY)
    /\ ~HasKey(hist.storage, CART_TIMESTAMP_KEY)
    /\ getTime(localStorage[CART_TIMESTAMP_KEY]) = now
    /\ now > 0

----------------------------------------------------------------------------
(* Vocabulary of the two-tab properties *)

\* No tab is between a handler and the save effect of its commit.
Quiescent == \A t \in Tabs : tabs[t].pc # "effect"

\* The slot holds exactly this collection: both keys and its text if it is
\* non-empty, neither key if it is empty.
SlotReflects(ls, c) ==
    IF Len(c) > 0
    THEN SlotComplete(ls) /\ ls[CART_STORAGE_KEY] = JSONstringify(c)
    ELSE SlotEmpty(ls)

\* No step of one tab's operation or save effect changes the other tab.
TabsIsolated ==
    \A t \in Tabs :
       (tabs[t].pc \in {"idle", "effect"} /\ tabs'[t].pc # tabs[t].pc)
          => tabs'[Other(t)] = tabs[Other(t)]

----------------------------------------------------------------------------
(* C18  Fail-fast outside scope: useCart() called by a consumer that is    *)
(* not below a CartProvider throws at once and returns nothing; called     *)
(* below a CartProvider it returns the provider's items, operations and    *)
(* isLoading and does not throw.  A render changes neither the collection  *)
(* nor the slot.                                                           *)
C18_FailFast ==
    [][consumer' # consumer =>
         /\ consumer'.rendered
         /\ IF consumer'.nested
            THEN /\ ~consumer'.result.threw
                 /\ consumer'.result.value.items = items
                 /\ consumer'.result.value.isLoading = isLoading
                 /\ consumer'.result.value.operations = Operations
            ELSE /\ consumer'.result.threw
                 /\ consumer'.result.error = "useCart must be used within a CartProvider"
                 /\ "value" \notin DOMAIN consumer'.result
         /\ UNCHANGED <<items, isLoading, localStorage>>]_vars

\* A consumer outside any provider has just thrown while the mounted store
\* holds a loaded, non-empty collection.
C18_Witness ==
    /\ consumer.rendered /\ ~consumer.nested /\ consumer.result.threw
    /\ pc = "idle" /\ ~isLoading /\ Len(items) > 0

----------------------------------------------------------------------------
\* The entries of a collection whose id differs from this one, in order.
OtherEntries(s, id) == SelectSeq(s, LAMBDA e : e.id # id)

\* Entry b is entry a with at most another quantity.
SameButQuantity(a, b) ==
    /\ b.id = a.id
    /\ b.name = a.name
    /\ b.price = a.price
    /\ b.imageUrl = a.imageUrl

(* C22  Frame of mutations: addToCart on an id already held, updateQuantity *)
(* and removeFromCart leave every entry with another id unchanged in all    *)
(* fields and in the same relative order; addToCart and updateQuantity keep *)
(* the targeted entry at its position with its id, name, price and imageUrl.*)
C22_Frame ==
    (/\ hist.op \in Mutations
     /\ hist.op = "addToCart" => HasId(hist.items, hist.arg.id))
       => /\ OtherEntries(items, hist.arg.id) = OtherEntries(hist.items, hist.arg.id)
          /\ hist.op # "removeFromCart"
               => /\ Len(items) = Len(hist.items)
                  /\ \A k \in 1..Len(hist.items) :
                       hist.items[k].id = hist.arg.id
                         => SameButQuantity(hist.items[k], items[k])

\* updateQuantity has changed the quantity of the second of two entries;
\* the first entry has another id.
C22_Witness ==
    /\ hist.op = "updateQuantity"
    /\ pc = "idle"
    /\ Len(hist.items) = 2
    /\ hist.items[2].id = hist.arg.id
    /\ hist.items[1].id # hist.arg.id
    /\ items[2].quantity # hist.items[2].quantity

----------------------------------------------------------------------------
(* C21  Implementation equivalence: started on the same slot with the same *)
(* clock and given the same addToCart, removeFromCart and clearCart calls, *)
(* the monolithic and the modular provider hold the same collection, the   *)
(* same isLoading and the same slot contents after every step.             *)
C21_Equivalence ==
    /\ impl.monolithic.items = impl.modular.items
    /\ impl.monolithic.isLoading = impl.modular.isLoading
    /\ impl.monolithic.localStorage = impl.modular.localStorage
    /\ impl.monolithic.pc = impl.modular.pc

\* Both providers have just removed the only entry of a collection they had
\* written to the slot, the monolithic one through clearCart() inside its
\* updater: both hold nothing and both keys are gone.
C21_Witness ==
    /\ Both("effect")
    /\ hist.op = "removeFromCart"
    /\ Len(hist.items) = 1
    /\ hist.items[1].id = hist.arg.id
    /\ SlotComplete(hist.storage)
    /\ \A i \in Providers :
         /\ ~impl[i].isLoading
         /\ Len(impl[i].items) = 0
         /\ SlotEmpty(impl[i].localStorage)

====
